---------------------------- MODULE Spec2Model ----------------------------
(***************************************************************************)
(* CleanSweep backend (server.js): the reports table and the request       *)
(* handlers that read and write it.                                        *)
(*                                                                         *)
(* Every handler is an async function; control leaves it at each await.    *)
(* A handler is therefore a sequence of steps, one per awaited call, and   *)
(* the steps of different requests interleave freely.  A single SQL        *)
(* statement is one atomic step.                                           *)
(*                                                                         *)
(* Coordinates.  The proximity query computes                              *)
(*   6371 * acos(cos(a) cos(b) cos(dl) + sin(a) sin(b))                    *)
(* The model keeps points on one great circle through the poles: lng is    *)
(* 0 or 180 degrees and lat is measured in metres of arc along the         *)
(* meridian.  For dl = 0 the expression is 6371 km * |a - b|, for          *)
(* dl = 180 degrees it is 6371 km * (pi - |a + b|); both are exact         *)
(* reductions of the formula, evaluated here in whole metres.              *)
(* Arithmetic is exact: the rounding of the database's floating-point      *)
(* cos, sin and acos is not modelled.                                      *)
(*                                                                         *)
(* Time is counted in whole hours.  Store and connection failures are not  *)
(* modelled; the image upload and the classification call can fail.        *)
(*                                                                         *)
(* Two specifications share the actions.  Spec has two clients whose       *)
(* requests overlap, sent without a classification key, within one tick    *)
(* of the clock.  SpecOneClient has one client, whose requests therefore   *)
(* never overlap, points of one meridian, keys and every classification    *)
(* answer, and a clock that advances.                                      *)
(***************************************************************************)
EXTENDS Integers, Sequences, FiniteSets, TLC

\* ------------------------------------------------------------------ bounds
MaxId == 2
MaxUpvotes == 1
MaxTime == 1

\* --------------------------------------------------------------- constants
\* distance < 0.05 (km), in metres
Threshold == 50
\* 6371 km * pi, in metres: the distance between antipodal points
HalfCircumference == 20015087
\* upvotes column default of the reports table
InitialUpvotes == 0
\* DATE(created_at): hours in a calendar day
HoursPerDay == 24
\* INTERVAL '30 days'
WindowDays == 30

Procs == {"p1", "p2"}

NULL == "NULL"
None == <<>>
Some(x) == <<x>>

Statuses == {"pending", "in_progress", "cleaned"}
Categories == {"Household Waste", "Construction Debris", "Hazardous/Chemical",
               "E-Waste", "Organic/Green Waste", "Other"}
Severities == {"Small", "Medium", "Large"}

\* ------------------------------------------------------------------ inputs
\* <<lat, lng>>: three points of the meridian lng = 0, which are 49, 50 and
\* 99 m apart, and the point of the opposite meridian facing the first
Coords == {<<0, 0>>, <<49, 0>>, <<99, 0>>, <<0, 180>>}
Devices == {"d1"}
Descriptions == {"pile"}
Urls == {"https://img"}
\* A multipart form of POST /api/report: a field is absent or empty (None) or
\* carries a value (Some).  The complete forms, and the forms that lack
\* exactly one of the required parts.
FullForms ==
    {[hasPhoto |-> TRUE, lat |-> Some(c[1]), lng |-> Some(c[2]),
      device |-> Some(d), description |-> t, hasKey |-> k] :
        c \in Coords, d \in Devices, t \in Descriptions, k \in BOOLEAN}
PartialForms ==
    LET f == CHOOSE g \in FullForms : TRUE
    IN {[f EXCEPT !.hasPhoto = FALSE], [f EXCEPT !.lat = None],
        [f EXCEPT !.lng = None], [f EXCEPT !.device = None]}
Forms == FullForms \cup PartialForms
\* the forms sent without the x-gemini-key header
KeylessForms == {f \in Forms : ~f.hasKey}
\* the forms whose point, if given, is on the meridian lng = 0
MeridianForms == {f \in Forms : f.lng # Some(180)}
\* the clients of the sequential specification
OneClient == {"p1"}
\* the status field of a PUT body; "" is an absent or empty field
StatusInputs == Statuses \cup {"", "archived"}
\* ids a request can name: every id the table can hold and one it never holds
IdInputs == 1..(MaxId + 1)
\* device ids a request can name: the submitters and one that never submits
DeviceInputs == Devices \cup {"d0"}
\* what the classification endpoint can answer: a failure (transport error,
\* non-2xx, unparseable body) or a parsed JSON object; "" is a field that is
\* absent or falsy in that object
AIOutcomes ==
    {[ok |-> FALSE, category |-> "", severity |-> ""],
     [ok |-> TRUE, category |-> "E-Waste", severity |-> ""],
     [ok |-> TRUE, category |-> "Plastic", severity |-> "Huge"]}

VARIABLES reports, nextId, now, pc, req, resp

vars == <<reports, nextId, now, pc, req, resp>>

Abs(x) == IF x < 0 THEN -x ELSE x

\* The distance expression of the proximity query, in metres.
Distance(lat1, lng1, lat2, lng2) ==
    IF lng1 = lng2 THEN Abs(lat1 - lat2)
    ELSE HalfCircumference - Abs(lat1 + lat2)

\* Column defaults of the reports table for the columns the INSERT omits.
ColumnDefaults ==
    [status |-> "pending", upvotes |-> InitialUpvotes,
     cleanup_photo_url |-> NULL, cleaned_at |-> None]

Rows == {reports[i] : i \in DOMAIN reports}

\* Candidates with the filter written distance <= 0.05.
CandidatesInclusive(lat, lng) ==
    {i \in DOMAIN reports :
        /\ reports[i].status = "pending"
        /\ Distance(lat, lng, reports[i].lat, reports[i].lng) <= Threshold}

\* The subquery: pending rows and their distance to ($1, $2), filtered by
\* distance < 0.05.
Candidates(lat, lng) ==
    {i \in DOMAIN reports :
        /\ reports[i].status = "pending"
        /\ Distance(lat, lng, reports[i].lat, reports[i].lng) < Threshold}

\* ORDER BY distance LIMIT 1: the ids that can come first (ties are in no
\* specified order).
Nearest(lat, lng) ==
    {i \in Candidates(lat, lng) :
        \A j \in Candidates(lat, lng) :
            Distance(lat, lng, reports[i].lat, reports[i].lng)
              <= Distance(lat, lng, reports[j].lat, reports[j].lng)}

\* a || b on strings: the empty (or absent) value is falsy
OrElse(v, d) == IF v = "" THEN d ELSE v

\* getAITriage: the pair it returns, given the key's presence and the
\* endpoint's answer.
GetAITriage(hasKey, outcome) ==
    IF ~hasKey THEN [category |-> "Other", severity |-> "Medium"]
    ELSE IF ~outcome.ok THEN [category |-> "Other", severity |-> "Medium"]
    ELSE [category |-> OrElse(outcome.category, "Other"),
          severity |-> OrElse(outcome.severity, "Medium")]

IdleReq ==
    [op |-> "none", lat |-> 0, lng |-> 0, description |-> NULL, device |-> "",
     hasKey |-> FALSE, target |-> 0, url |-> NULL, category |-> "",
     severity |-> "", triageCalled |-> FALSE]

\* resp is the response the last step sent, NoResp when it sent none.
NoResp ==
    [to |-> "", op |-> "none", code |-> 0, upvoted |-> FALSE, body |-> <<>>,
     stats |-> <<>>]

Reply(p, op, code) == [NoResp EXCEPT !.to = p, !.op = op, !.code = code]

Init ==
    /\ reports = <<>>
    /\ nextId = 1
    /\ now = 0
    /\ pc = [p \in Procs |-> "idle"]
    /\ req = [p \in Procs |-> IdleReq]
    /\ resp = NoResp

\* -------------------------------------------------------- model capacity
Creating == {q \in Procs : pc[q] \in {"upload", "triage", "insert"}}
Upvoting(t) == {q \in Procs : pc[q] = "update" /\ req[q].target = t}
CanCreate == nextId + Cardinality(Creating) <= MaxId
CanUpvote(t) == reports[t].upvotes + Cardinality(Upvoting(t)) < MaxUpvotes

Finish(p) ==
    /\ pc' = [pc EXCEPT ![p] = "idle"]
    /\ req' = [req EXCEPT ![p] = IdleReq]

\* ------------------------------------------------------ POST /api/report
\* Validation and the proximity query.
SubmitQuery(p, form) ==
    /\ pc[p] = "idle"
    /\ IF ~form.hasPhoto
       THEN /\ resp' = Reply(p, "submit", 400)
            /\ UNCHANGED <<pc, req>>
       ELSE IF form.lat = None \/ form.lng = None \/ form.device = None
       THEN /\ resp' = Reply(p, "submit", 400)
            /\ UNCHANGED <<pc, req>>
       ELSE LET la == form.lat[1]
                lo == form.lng[1]
                r == [IdleReq EXCEPT !.op = "submit", !.lat = la, !.lng = lo,
                          !.description = form.description,
                          !.device = form.device[1],
                          !.hasKey = form.hasKey]
            IN IF Nearest(la, lo) # {}
               THEN \E t \in Nearest(la, lo) :
                      /\ CanUpvote(t)
                      /\ pc' = [pc EXCEPT ![p] = "update"]
                      /\ req' = [req EXCEPT ![p] = [r EXCEPT !.target = t]]
                      /\ resp' = NoResp
               ELSE /\ CanCreate
                    /\ pc' = [pc EXCEPT ![p] = "upload"]
                    /\ req' = [req EXCEPT ![p] = r]
                    /\ resp' = NoResp
    /\ UNCHANGED <<reports, nextId, now>>

\* UPDATE reports SET upvotes = upvotes + 1 WHERE id = $1
SubmitUpdate(p) ==
    /\ pc[p] = "update"
    /\ LET t == req[p].target
       IN reports' = IF t \in DOMAIN reports
                     THEN [reports EXCEPT ![t].upvotes = @ + 1]
                     ELSE reports
    /\ pc' = [pc EXCEPT ![p] = "select"]
    /\ resp' = NoResp
    /\ UNCHANGED <<nextId, now, req>>

\* SELECT * FROM reports WHERE id = $1, and the 200 response
SubmitSelect(p) ==
    /\ pc[p] = "select"
    /\ LET t == req[p].target
           rows == IF t \in DOMAIN reports THEN <<reports[t]>> ELSE <<>>
       IN resp' = [Reply(p, "submit", 200) EXCEPT !.upvoted = TRUE, !.body = rows]
    /\ Finish(p)
    /\ UNCHANGED <<reports, nextId, now>>

\* SubmitUpload with the rejection swallowed: the handler goes on without a URL.
SubmitUploadSwallowed(p) ==
    /\ pc[p] = "upload"
    /\ \E u \in Urls \cup {NULL} :
          /\ pc' = [pc EXCEPT ![p] = "triage"]
          /\ req' = [req EXCEPT ![p].url = u]
          /\ resp' = NoResp
    /\ UNCHANGED <<reports, nextId, now>>

\* uploadToCloudinary(photoBuffer): resolves with a URL or rejects
SubmitUpload(p) ==
    /\ pc[p] = "upload"
    /\ \/ \E u \in Urls :
            /\ pc' = [pc EXCEPT ![p] = "triage"]
            /\ req' = [req EXCEPT ![p].url = u]
            /\ resp' = NoResp
       \/ /\ resp' = Reply(p, "submit", 500)
          /\ Finish(p)
    /\ UNCHANGED <<reports, nextId, now>>

\* getAITriage(photoBuffer, mimeType, geminiKey)
SubmitTriage(p) ==
    /\ pc[p] = "triage"
    /\ \E outcome \in AIOutcomes :
         LET t == GetAITriage(req[p].hasKey, outcome)
         IN req' = [req EXCEPT ![p].category = t.category,
                               ![p].severity = t.severity,
                               ![p].triageCalled = TRUE]
    /\ pc' = [pc EXCEPT ![p] = "insert"]
    /\ resp' = NoResp
    /\ UNCHANGED <<reports, nextId, now>>

\* The row of the INSERT: the seven values passed, id from the sequence,
\* created_at from NOW(), and the column defaults for the rest.
NewRow(p) ==
    [id |-> nextId,
     citizen_device_id |-> req[p].device,
     lat |-> req[p].lat,
     lng |-> req[p].lng,
     initial_photo_url |-> req[p].url,
     description |-> req[p].description,
     category |-> req[p].category,
     severity |-> req[p].severity,
     status |-> ColumnDefaults.status,
     upvotes |-> ColumnDefaults.upvotes,
     cleanup_photo_url |-> ColumnDefaults.cleanup_photo_url,
     created_at |-> now,
     cleaned_at |-> ColumnDefaults.cleaned_at]

\* SubmitInsert with the proximity check repeated in the same statement: a
\* pending row within the threshold, if there is one by now, is upvoted
\* instead.
SubmitInsertIsolated(p) ==
    /\ pc[p] = "insert"
    /\ IF Nearest(req[p].lat, req[p].lng) = {}
       THEN /\ reports' = [i \in DOMAIN reports \cup {nextId} |->
                              IF i = nextId THEN NewRow(p) ELSE reports[i]]
            /\ resp' = [Reply(p, "submit", 201) EXCEPT !.body = <<NewRow(p)>>]
            /\ nextId' = nextId + 1
       ELSE /\ \E t \in Nearest(req[p].lat, req[p].lng) :
                  /\ reports' = [reports EXCEPT ![t].upvotes = @ + 1]
                  /\ resp' = [Reply(p, "submit", 200) EXCEPT
                                 !.upvoted = TRUE, !.body = <<reports'[t]>>]
            /\ UNCHANGED nextId
    /\ Finish(p)
    /\ UNCHANGED now

\* INSERT INTO reports (...) RETURNING *, and the 201 response
SubmitInsert(p) ==
    /\ pc[p] = "insert"
    /\ reports' = [i \in DOMAIN reports \cup {nextId} |->
                      IF i = nextId THEN NewRow(p) ELSE reports[i]]
    /\ resp' = [Reply(p, "submit", 201) EXCEPT !.body = <<NewRow(p)>>]
    /\ nextId' = nextId + 1
    /\ Finish(p)
    /\ UNCHANGED now

\* -------------------------------------------------------- GET /api/reports
\* ORDER BY created_at DESC: the orders a result set S can come back in (rows
\* with equal created_at are in no specified order).
OrderedByCreatedDesc(S) ==
    {q \in [1..Cardinality(S) -> S] :
        /\ \A i, j \in 1..Cardinality(S) : i # j => q[i] # q[j]
        /\ \A i, j \in 1..Cardinality(S) :
              i < j => q[i].created_at >= q[j].created_at}

ListAll(p) ==
    /\ pc[p] = "idle"
    /\ \E q \in OrderedByCreatedDesc(Rows) :
          resp' = [Reply(p, "list", 200) EXCEPT !.body = q]
    /\ UNCHANGED <<reports, nextId, now, pc, req>>

\* ----------------------------------------- GET /api/reports/citizen/:deviceId
ListByDevice(p, deviceId) ==
    /\ pc[p] = "idle"
    /\ \E q \in OrderedByCreatedDesc({r \in Rows : r.citizen_device_id = deviceId}) :
          resp' = [Reply(p, "list_device", 200) EXCEPT !.body = q]
    /\ UNCHANGED <<reports, nextId, now, pc, req>>

\* ------------------------------------------------ PUT /api/report/:id/status
\* SetStatus with the UPDATE also resetting the counter.
SetStatusResetsUpvotes(p, id, status) ==
    /\ pc[p] = "idle"
    /\ status \in {"pending", "in_progress", "cleaned"}
    /\ id \in DOMAIN reports
    /\ reports' = [reports EXCEPT ![id].status = status,
                                  ![id].upvotes = InitialUpvotes]
    /\ resp' = Reply(p, "status", 200)
    /\ UNCHANGED <<nextId, now, pc, req>>

SetStatus(p, id, status) ==
    /\ pc[p] = "idle"
    /\ IF status = "" \/ status \notin {"pending", "in_progress", "cleaned"}
       THEN /\ resp' = Reply(p, "status", 400)
            /\ UNCHANGED reports
       ELSE /\ reports' = IF id \in DOMAIN reports
                          THEN [reports EXCEPT ![id].status = status]
                          ELSE reports
            /\ resp' = Reply(p, "status", 200)
    /\ UNCHANGED <<nextId, now, pc, req>>

\* ----------------------------------------------- PUT /api/report/:id/cleanup
\* The file check and uploadToCloudinary(photoBuffer).
CleanupUpload(p, id, hasPhoto) ==
    /\ pc[p] = "idle"
    /\ IF ~hasPhoto
       THEN /\ resp' = Reply(p, "cleanup", 400)
            /\ UNCHANGED <<pc, req>>
       ELSE \/ \E u \in Urls :
                 /\ pc' = [pc EXCEPT ![p] = "cleanup_write"]
                 /\ req' = [req EXCEPT ![p] =
                              [IdleReq EXCEPT !.op = "cleanup", !.target = id,
                                              !.url = u]]
                 /\ resp' = NoResp
            \/ /\ resp' = Reply(p, "cleanup", 500)
               /\ UNCHANGED <<pc, req>>
    /\ UNCHANGED <<reports, nextId, now>>

\* CleanupWrite with cleaned_at left out of the UPDATE.
CleanupWriteNoTimestamp(p) ==
    /\ pc[p] = "cleanup_write"
    /\ LET t == req[p].target
       IN reports' = IF t \in DOMAIN reports
                     THEN [reports EXCEPT ![t].status = "cleaned",
                                          ![t].cleanup_photo_url = req[p].url]
                     ELSE reports
    /\ resp' = Reply(p, "cleanup", 200)
    /\ Finish(p)
    /\ UNCHANGED <<nextId, now>>

\* UPDATE reports SET status = 'cleaned', cleanup_photo_url = $2,
\* cleaned_at = NOW() WHERE id = $3
CleanupWrite(p) ==
    /\ pc[p] = "cleanup_write"
    /\ LET t == req[p].target
       IN reports' = IF t \in DOMAIN reports
                     THEN [reports EXCEPT ![t].status = "cleaned",
                                          ![t].cleanup_photo_url = req[p].url,
                                          ![t].cleaned_at = Some(now)]
                     ELSE reports
    /\ resp' = Reply(p, "cleanup", 200)
    /\ Finish(p)
    /\ UNCHANGED <<nextId, now>>

\* ---------------------------------------------------- DELETE /api/report/:id
\* Delete with rowCount unchecked: an absent id is answered like a present one.
DeleteUnchecked(p, id) ==
    /\ pc[p] = "idle"
    /\ reports' = [i \in DOMAIN reports \ {id} |-> reports[i]]
    /\ resp' = Reply(p, "delete", 200)
    /\ UNCHANGED <<nextId, now, pc, req>>

Delete(p, id) ==
    /\ pc[p] = "idle"
    /\ IF id \in DOMAIN reports
       THEN /\ reports' = [i \in DOMAIN reports \ {id} |-> reports[i]]
            /\ resp' = Reply(p, "delete", 200)
       ELSE /\ resp' = Reply(p, "delete", 404)
            /\ UNCHANGED reports
    /\ UNCHANGED <<nextId, now, pc, req>>

\* ------------------------------------------------------------ GET /api/stats
RECURSIVE SumOver(_, _)
SumOver(S, f) ==
    IF S = {} THEN 0
    ELSE LET i == CHOOSE k \in S : TRUE
         IN f[i] + SumOver(S \ {i}, f)

\* AVG(CASE WHEN status = 'cleaned' THEN hours(cleaned_at - created_at) END),
\* rounded to one decimal and given in tenths of an hour; 0 when the average
\* is NULL.
AvgCleanupTenths ==
    LET S == {i \in DOMAIN reports :
                 reports[i].status = "cleaned" /\ reports[i].cleaned_at # None}
        n == Cardinality(S)
        total == SumOver(S, [i \in S |-> reports[i].cleaned_at[1] - reports[i].created_at])
    IN IF n = 0 THEN 0 ELSE (20 * total + n) \div (2 * n)

DateOf(t) == t \div HoursPerDay

StatsOf ==
    [total |-> Cardinality(DOMAIN reports),
     cleaned |-> Cardinality({i \in DOMAIN reports : reports[i].status = "cleaned"}),
     avg_cleanup_time_tenths |-> AvgCleanupTenths,
     overTime |->
        LET recent == {i \in DOMAIN reports :
                          DateOf(reports[i].created_at) >= DateOf(now) - WindowDays}
            days == {DateOf(reports[i].created_at) : i \in recent}
        IN [d \in days |->
               Cardinality({i \in recent : DateOf(reports[i].created_at) = d})],
     byCategory |->
        [c \in {r.category : r \in Rows} |->
            Cardinality({i \in DOMAIN reports : reports[i].category = c})],
     locations |->
        [l \in {<<r.lat, r.lng>> : r \in Rows} |->
            Cardinality({i \in DOMAIN reports :
                            <<reports[i].lat, reports[i].lng>> = l})]]

Stats(p) ==
    /\ pc[p] = "idle"
    /\ resp' = [Reply(p, "stats", 200) EXCEPT !.stats = <<StatsOf>>]
    /\ UNCHANGED <<reports, nextId, now, pc, req>>

\* ---------------------------------------------------------------- the clock
Tick ==
    /\ now < MaxTime
    /\ now' = now + 1
    /\ resp' = NoResp
    /\ UNCHANGED <<reports, nextId, pc, req>>

Next ==
    \/ \E p \in Procs, form \in KeylessForms : SubmitQuery(p, form)
    \/ \E p \in Procs : SubmitUpdate(p)
    \/ \E p \in Procs : SubmitSelect(p)
    \/ \E p \in Procs : SubmitUpload(p)
    \/ \E p \in Procs : SubmitTriage(p)
    \/ \E p \in Procs : SubmitInsert(p)
    \/ \E p \in Procs : ListAll(p)
    \/ \E p \in Procs, d \in DeviceInputs : ListByDevice(p, d)
    \/ \E p \in Procs, id \in IdInputs, status \in StatusInputs : SetStatus(p, id, status)
    \/ \E p \in Procs, id \in IdInputs, hasPhoto \in BOOLEAN : CleanupUpload(p, id, hasPhoto)
    \/ \E p \in Procs : CleanupWrite(p)
    \/ \E p \in Procs, id \in IdInputs : Delete(p, id)
    \/ \E p \in Procs : Stats(p)

Spec == Init /\ [][Next]_vars

NextOneClient ==
    \/ \E p \in OneClient, form \in MeridianForms : SubmitQuery(p, form)
    \/ \E p \in OneClient : SubmitUpdate(p)
    \/ \E p \in OneClient : SubmitSelect(p)
    \/ \E p \in OneClient : SubmitUpload(p)
    \/ \E p \in OneClient : SubmitTriage(p)
    \/ \E p \in OneClient : SubmitInsert(p)
    \/ \E p \in OneClient : ListAll(p)
    \/ \E p \in OneClient, d \in DeviceInputs : ListByDevice(p, d)
    \/ \E p \in OneClient, id \in IdInputs, status \in StatusInputs : SetStatus(p, id, status)
    \/ \E p \in OneClient, id \in IdInputs, hasPhoto \in BOOLEAN : CleanupUpload(p, id, hasPhoto)
    \/ \E p \in OneClient : CleanupWrite(p)
    \/ \E p \in OneClient, id \in IdInputs : Delete(p, id)
    \/ \E p \in OneClient : Stats(p)
    \/ Tick

SpecOneClient == Init /\ [][NextOneClient]_vars

\* ====================================================================
\* Properties
\* ====================================================================
Pending == {i \in DOMAIN reports : reports[i].status = "pending"}

\* the pending rows strictly less than 50 m from (lat, lng)
PendingWithin(lat, lng) ==
    {i \in Pending : Distance(lat, lng, reports[i].lat, reports[i].lng) < Threshold}

IsFull(form) ==
    form.hasPhoto /\ form.lat # None /\ form.lng # None /\ form.device # None

\* the row an INSERT by p adds: the submitted values and the column defaults
CreatedBy(p) ==
    /\ nextId \notin DOMAIN reports
    /\ DOMAIN reports' = DOMAIN reports \cup {nextId}
    /\ \A i \in DOMAIN reports : reports'[i] = reports[i]
    /\ reports'[nextId].status = "pending"
    /\ reports'[nextId].upvotes = InitialUpvotes
    /\ reports'[nextId].lat = req[p].lat
    /\ reports'[nextId].lng = req[p].lng

\* C1: in every reachable state every Report has cleaned_at non-null exactly
\* when its status is cleaned.
C1_CleanedAtIffCleaned ==
    \A i \in DOMAIN reports :
        (reports[i].cleaned_at # None) <=> (reports[i].status = "cleaned")

\* C2: a valid Submit within 50 m of exactly one pending Report creates no
\* Report, raises that Report's upvotes by exactly 1, and is answered 200 with
\* that Report and upvoted = true.
C2_NearSubmitUpvotes ==
    [][\A p \in Procs :
         /\ \A form \in Forms :
              (/\ pc'[p] # pc[p]
               /\ IsFull(form)
               /\ SubmitQuery(p, form)
               /\ Cardinality(PendingWithin(form.lat[1], form.lng[1])) = 1)
              => /\ pc'[p] = "update"
                 /\ req'[p].target \in PendingWithin(form.lat[1], form.lng[1])
                 /\ reports' = reports
         /\ SubmitUpdate(p)
              => /\ req[p].target \in DOMAIN reports
                 /\ reports' = [reports EXCEPT ![req[p].target].upvotes = @ + 1]
         /\ SubmitSelect(p)
              => /\ req[p].target \in DOMAIN reports
                 /\ reports' = reports
                 /\ resp'.code = 200
                 /\ resp'.upvoted
                 /\ resp'.body = <<reports[req[p].target]>>]_vars

\* C3: a valid Submit that has no pending Report strictly nearer than 50 m
\* (farther away, or at exactly 50 m) takes the create branch, and once its
\* upload succeeds it adds exactly one Report, pending, with the initial
\* upvotes and the submitted coordinates, changing no other Report.
C3_FarSubmitCreates ==
    [][\A p \in Procs :
         /\ \A form \in Forms :
              (/\ pc'[p] # pc[p]
               /\ IsFull(form)
               /\ SubmitQuery(p, form)
               /\ \A i \in Pending :
                     Distance(form.lat[1], form.lng[1],
                              reports[i].lat, reports[i].lng) >= Threshold)
              => /\ pc'[p] = "upload"
                 /\ req'[p].lat = form.lat[1]
                 /\ req'[p].lng = form.lng[1]
                 /\ reports' = reports
         /\ (SubmitUpload(p) /\ resp'.code # 500)
              => /\ pc'[p] = "triage"
                 /\ req'[p].lat = req[p].lat /\ req'[p].lng = req[p].lng
                 /\ reports' = reports
         /\ SubmitTriage(p)
              => /\ pc'[p] = "insert"
                 /\ req'[p].lat = req[p].lat /\ req'[p].lng = req[p].lng
                 /\ reports' = reports
         /\ SubmitInsert(p)
              => /\ CreatedBy(p)
                 /\ resp'.code = 201
                 /\ resp'.body = <<reports'[nextId]>>]_vars

\* a Report was just created while a pending Report lies at exactly 50 m
C3_Witness ==
    /\ resp.op = "submit" /\ resp.code = 201
    /\ \E i \in Pending :
          /\ i # resp.body[1].id
          /\ Distance(resp.body[1].lat, resp.body[1].lng,
                      reports[i].lat, reports[i].lng) = Threshold

\* C4: no step raises the upvotes of a Report that is not pending at that
\* moment.
C4_OnlyPendingAbsorbs ==
    [][\A i \in DOMAIN reports \cap DOMAIN reports' :
          reports'[i].upvotes > reports[i].upvotes
             => reports[i].status = "pending"]_vars

\* C5: the proximity query and the INSERT of a Submit are not isolated.  A
\* query sees only stored rows, so it takes the create branch although another
\* Submit within 50 m is already past its own query; and the INSERT adds its
\* row, upvoting nothing, although a pending Report within 50 m is stored by
\* then.
C5_SubmitNotIsolated ==
    [][\A p \in Procs :
         /\ \A form \in Forms :
              (/\ pc'[p] # pc[p]
               /\ IsFull(form)
               /\ SubmitQuery(p, form)
               /\ PendingWithin(form.lat[1], form.lng[1]) = {}
               /\ \E q \in Creating :
                     Distance(form.lat[1], form.lng[1], req[q].lat, req[q].lng)
                        < Threshold)
              => pc'[p] = "upload"
         /\ (SubmitInsert(p) /\ PendingWithin(req[p].lat, req[p].lng) # {})
              => /\ CreatedBy(p)
                 /\ pc'[p] = "idle"
                 /\ resp'.code = 201]_vars

\* one of two overlapping Submits within 50 m of each other has just inserted
\* its Report and the other, already past its query, is about to insert
C5_Witness ==
    \E p, q \in Procs :
        /\ p # q
        /\ resp.to = p /\ resp.op = "submit" /\ resp.code = 201
        /\ pc[q] = "insert"
        /\ resp.body[1].id \in Pending
        /\ resp.body[1].upvotes = InitialUpvotes
        /\ Distance(resp.body[1].lat, resp.body[1].lng, req[q].lat, req[q].lng)
              < Threshold

\* C6: every stored Report has a category of the category enumeration and a
\* severity of the severity enumeration.
C6_LabelsInEnum ==
    \A i \in DOMAIN reports :
        reports[i].category \in Categories /\ reports[i].severity \in Severities

\* C7: a Submit whose upload fails ends there with a 500: the store is
\* unchanged, getAITriage has not been called, and no stored Report lacks its
\* initial_photo_url.
C7_UploadFailureAborts ==
    /\ [](\A i \in DOMAIN reports : reports[i].initial_photo_url \in Urls)
    /\ [][\A p \in Procs :
            SubmitUpload(p)
              => \/ /\ pc'[p] = "triage"
                    /\ req'[p].url \in Urls
                    /\ reports' = reports
                 \/ /\ pc'[p] = "idle"
                    /\ resp'.to = p /\ resp'.op = "submit" /\ resp'.code = 500
                    /\ ~req[p].triageCalled
                    /\ reports' = reports
                    /\ nextId' = nextId]_vars

\* a Submit was just answered 500 while the store holds a Report
C7_Witness ==
    /\ resp.op = "submit" /\ resp.code = 500
    /\ reports # <<>>

\* C8: Delete of an absent id answers 404 and leaves the store unchanged;
\* Delete of a present id answers 200 and removes that Report only; a deleted
\* id never comes back, and ListAll returns stored Reports only.
C8_Delete ==
    [][/\ \A p \in Procs, id \in IdInputs :
            (resp'.op = "delete" /\ Delete(p, id))
              => IF id \in DOMAIN reports
                 THEN /\ resp'.code = 200
                      /\ DOMAIN reports' = DOMAIN reports \ {id}
                      /\ \A i \in DOMAIN reports' : reports'[i] = reports[i]
                 ELSE /\ resp'.code = 404
                      /\ reports' = reports
       /\ \A id \in 1..(nextId - 1) :
            id \notin DOMAIN reports => id \notin DOMAIN reports'
       /\ \A p \in Procs :
            (resp'.op = "list" /\ ListAll(p))
              => /\ {resp'.body[k] : k \in 1..Len(resp'.body)} = Rows
                 /\ Len(resp'.body) = Cardinality(Rows)]_vars

\* ListAll was just answered with a Report while an earlier Report is deleted
C8_Witness ==
    /\ resp.op = "list" /\ Len(resp.body) > 0
    /\ \E id \in 1..(nextId - 1) : id \notin DOMAIN reports

\* C9: Cleanup without a photo answers 400 and changes nothing; the write of
\* a Cleanup sets status, cleanup_photo_url and cleaned_at of its Report in
\* one step, so no state shows one of the two cleanup columns without the
\* other.
C9_Cleanup ==
    /\ [](\A i \in DOMAIN reports :
            (reports[i].cleanup_photo_url = NULL) <=> (reports[i].cleaned_at = None))
    /\ [][\A p \in Procs :
            /\ \A id \in IdInputs :
                 CleanupUpload(p, id, FALSE)
                   => /\ resp'.code = 400
                      /\ reports' = reports /\ pc' = pc /\ req' = req
            /\ (CleanupWrite(p) /\ req[p].target \in DOMAIN reports)
                 => /\ req[p].url \in Urls
                    /\ reports' =
                         [reports EXCEPT ![req[p].target] =
                            [@ EXCEPT !.status = "cleaned",
                                      !.cleanup_photo_url = req[p].url,
                                      !.cleaned_at = Some(now)]]]_vars

\* a Cleanup was just answered 200 and a Report carries its photo and time
C9_Witness ==
    /\ resp.op = "cleanup" /\ resp.code = 200
    /\ \E i \in DOMAIN reports :
          /\ reports[i].status = "cleaned"
          /\ reports[i].cleanup_photo_url \in Urls
          /\ reports[i].cleaned_at # None

\* C10: across every step a Report that stays in the store keeps its lat, lng
\* and created_at, and its upvotes do not decrease; they change only in the
\* upvote UPDATE of a Submit, by exactly 1.
C10_Frame ==
    [][\A i \in DOMAIN reports \cap DOMAIN reports' :
         /\ reports'[i].lat = reports[i].lat
         /\ reports'[i].lng = reports[i].lng
         /\ reports'[i].created_at = reports[i].created_at
         /\ reports'[i].upvotes >= reports[i].upvotes
         /\ reports'[i].upvotes # reports[i].upvotes
              => /\ reports'[i].upvotes = reports[i].upvotes + 1
                 /\ \E p \in Procs : SubmitUpdate(p) /\ req[p].target = i]_vars

\* an upvoted Report, created before the current hour, has been cleaned
C10_Witness ==
    \E i \in DOMAIN reports :
        /\ reports[i].upvotes > InitialUpvotes
        /\ reports[i].created_at < now
        /\ reports[i].status = "cleaned"
=============================================================================
